---- MODULE Spec2Model ----
(***************************************************************************)
(* A model of the PDF bank statement converter: the amount classifier      *)
(* (BankStatementConverter.parse_amount), the row transformer and CSV      *)
(* writer (clean_and_transform, convert) of converter.py, and the two      *)
(* upload endpoints (/convert, /convert-json) of api_server.py together    *)
(* with the files they stage under /app/uploads and /app/outputs.          *)
(*                                                                         *)
(* A text is a sequence of one-character strings.  The Baht sign is the    *)
(* character written "<baht>".  A cell of an extracted table is either     *)
(* None or a text.  A float is the exact decimal n / 10^k in lowest form.  *)
(***************************************************************************)
EXTENDS Integers, Sequences, FiniteSets, TLC

VARIABLES
    wd_value,    \* parse_amount: the cell value it is called with
    pa_result,   \* parse_amount: what the call produced
    pa_pc,       \* parse_amount: "call" before, "done" after the call
    pdf,         \* converter: what the table extractor finds in the input file
    conv,        \* converter: the outcome of convert()
    reqs,        \* server: the state of each upload request
    fs,          \* server: the files on disk, path -> file
    used_ids,    \* server: the job ids uuid4 has handed out
    foreign      \* server: a request has touched a file of another request

vars == <<wd_value, pa_result, pa_pc, pdf, conv, reqs, fs, used_ids, foreign>>

(***************************************************************************)
(* Bounds of the model.                                                    *)
(***************************************************************************)
MaxLen == 3      \* pieces of text in a cell given to parse_amount
MaxRows == 2     \* data rows below the header row of an extracted table
MaxReq == 2      \* upload requests in flight

(***************************************************************************)
(* Python values.                                                          *)
(***************************************************************************)
None == [kind |-> "none"]
Str(t) == [kind |-> "str", text |-> t]
Float(n, k) == [kind |-> "float", n |-> n, k |-> k]
EmptyStr == Str(<<>>)

Digits == {"0", "1", "2", "3", "4", "5", "6", "7", "8", "9"}
DigitVal ==
    ("0" :> 0) @@ ("1" :> 1) @@ ("2" :> 2) @@ ("3" :> 3) @@ ("4" :> 4) @@
    ("5" :> 5) @@ ("6" :> 6) @@ ("7" :> 7) @@ ("8" :> 8) @@ ("9" :> 9)
Whitespace == {" "}
LowerMap ==
    ("A" :> "a") @@ ("B" :> "b") @@ ("C" :> "c") @@ ("D" :> "d") @@
    ("E" :> "e") @@ ("F" :> "f") @@ ("G" :> "g") @@ ("H" :> "h") @@
    ("I" :> "i") @@ ("J" :> "j") @@ ("K" :> "k") @@ ("L" :> "l") @@
    ("M" :> "m") @@ ("N" :> "n") @@ ("O" :> "o") @@ ("P" :> "p") @@
    ("Q" :> "q") @@ ("R" :> "r") @@ ("S" :> "s") @@ ("T" :> "t") @@
    ("U" :> "u") @@ ("V" :> "v") @@ ("W" :> "w") @@ ("X" :> "x") @@
    ("Y" :> "y") @@ ("Z" :> "z")

\* bool(x): None, '' and 0.0 are false
truthy(v) ==
    CASE v.kind = "none" -> FALSE
      [] v.kind = "str" -> v.text # <<>>
      [] v.kind = "float" -> v.n # 0

\* str.strip()
RECURSIVE lstrip(_)
lstrip(t) == IF t # <<>> /\ Head(t) \in Whitespace THEN lstrip(Tail(t)) ELSE t
RECURSIVE rstrip(_)
rstrip(t) ==
    IF t # <<>> /\ t[Len(t)] \in Whitespace THEN rstrip(SubSeq(t, 1, Len(t) - 1)) ELSE t
strip(t) == rstrip(lstrip(t))

\* str.replace(ch, '')
remove(t, ch) == SelectSeq(t, LAMBDA c : c # ch)

\* str.lower()
lower(t) == [i \in 1..Len(t) |-> IF t[i] \in DOMAIN LowerMap THEN LowerMap[t[i]] ELSE t[i]]

\* sub in t
contains(t, sub) ==
    \E i \in 1..(Len(t) - Len(sub) + 1) : SubSeq(t, i, i + Len(sub) - 1) = sub

\* str.startswith / str.endswith
startswith(t, pre) == Len(t) >= Len(pre) /\ SubSeq(t, 1, Len(pre)) = pre
endswith(t, suf) == Len(t) >= Len(suf) /\ SubSeq(t, Len(t) - Len(suf) + 1, Len(t)) = suf

\* str(x) of a cell value
str(v) == IF v.kind = "none" THEN <<"N", "o", "n", "e">> ELSE v.text

(***************************************************************************)
(* re.search(r'[\d.]+', value): the leftmost, longest run of digits and    *)
(* decimal points; <<>> stands for "no match".                             *)
(***************************************************************************)
NumChars == Digits \cup {"."}
RECURSIVE run_end(_, _)
run_end(t, i) == IF i < Len(t) /\ t[i + 1] \in NumChars THEN run_end(t, i + 1) ELSE i
re_search(t) ==
    IF \E i \in 1..Len(t) : t[i] \in NumChars
    THEN LET s == CHOOSE i \in 1..Len(t) :
                      /\ t[i] \in NumChars
                      /\ \A j \in 1..(i - 1) : t[j] \notin NumChars
         IN  SubSeq(t, s, run_end(t, s))
    ELSE <<>>

(***************************************************************************)
(* float(run) for a run of digits and decimal points: a ValueError unless  *)
(* the run has at most one point and at least one digit.                   *)
(***************************************************************************)
float_ok(run) ==
    /\ Cardinality({i \in 1..Len(run) : run[i] = "."}) <= 1
    /\ \E i \in 1..Len(run) : run[i] \in Digits
RECURSIVE to_nat(_)
to_nat(ds) ==
    IF ds = <<>> THEN 0 ELSE 10 * to_nat(SubSeq(ds, 1, Len(ds) - 1)) + DigitVal[ds[Len(ds)]]
RECURSIVE reduce(_, _)
reduce(n, k) == IF k > 0 /\ n % 10 = 0 THEN reduce(n \div 10, k - 1) ELSE Float(n, k)
float(run) ==
    LET ds == SelectSeq(run, LAMBDA c : c \in Digits)
        dot == IF \E i \in 1..Len(run) : run[i] = "."
               THEN CHOOSE i \in 1..Len(run) : run[i] = "."
               ELSE Len(run)
    IN  reduce(to_nat(ds), Len(run) - dot)

(***************************************************************************)
(* parse_amount.                                                           *)
(***************************************************************************)
kw_dr == <<"d", "r">>
kw_withdrawal == <<"w", "i", "t", "h", "d", "r", "a", "w", "a", "l">>
kw_cr == <<"c", "r">>
kw_deposit == <<"d", "e", "p", "o", "s", "i", "t">>

\* value = str(v).strip().replace('$', '').replace(baht, '').replace(',', '')
normalize(v) == remove(remove(remove(strip(str(v)), "$"), "<baht>"), ",")

is_withdrawal_cr(value) ==
    \/ contains(lower(value), kw_dr)
    \/ contains(lower(value), kw_cr)
    \/ contains(lower(value), kw_withdrawal)
    \/ startswith(value, <<"-">>)
is_withdrawal_no_dr(value) ==
    \/ contains(lower(value), kw_withdrawal)
    \/ startswith(value, <<"-">>)
is_withdrawal(value) ==
    \/ contains(lower(value), kw_dr)
    \/ contains(lower(value), kw_withdrawal)
    \/ startswith(value, <<"-">>)
is_deposit(value) ==
    \/ contains(lower(value), kw_cr)
    \/ contains(lower(value), kw_deposit)
    \/ startswith(value, <<"+">>)

Returned(w, d) == [status |-> "ok", withdrawal |-> w, deposit |-> d]
Raised(e) == [status |-> e]

parse_amount(v) ==
    IF ~truthy(v) THEN Returned(None, None)
    ELSE LET value == normalize(v)
             amount_match == re_search(value)
         IN  IF amount_match = <<>> THEN Returned(None, None)
             ELSE IF ~float_ok(amount_match) THEN Raised("ValueError")
             ELSE LET amount == float(amount_match)
                  IN  IF is_withdrawal(value) THEN Returned(amount, None)
                      ELSE IF is_deposit(value) THEN Returned(None, amount)
                      ELSE Returned(None, amount)

(***************************************************************************)
(* The cells parse_amount is checked on: None, and every concatenation of  *)
(* at most MaxLen pieces.                                                  *)
(***************************************************************************)
Pieces ==
    { <<"D", "R">>, <<"d", "R">>, <<"C", "R">>, <<"C", "r">>,
      <<"W", "i", "t", "h", "d", "r", "a", "w", "a", "l">>,
      <<"d", "e", "p", "o", "s", "i", "t">>,
      <<"-">>, <<"+">>, <<"0">>, <<"5">>, <<".">>, <<" ">>,
      <<"$">>, <<"<baht>">>, <<",">>, <<"x">> }
RECURSIVE Texts(_)
Texts(n) ==
    IF n = 0 THEN {<<>>}
    ELSE LET shorter == Texts(n - 1)
         IN  shorter \cup {t \o p : t \in shorter, p \in Pieces}
CellValues == {None} \cup {Str(t) : t \in Texts(MaxLen)}

(***************************************************************************)
(* Properties of parse_amount, checked under SpecParse.                    *)
(***************************************************************************)
Called == pa_pc = "done"
IsText == wd_value.kind = "str"
HasDR == IsText /\ contains(lower(wd_value.text), kw_dr)
HasCR == IsText /\ contains(lower(wd_value.text), kw_cr)
HasNumChar == IsText /\ \E i \in 1..Len(wd_value.text) : wd_value.text[i] \in NumChars
HasDigit == IsText /\ \E i \in 1..Len(wd_value.text) : wd_value.text[i] \in Digits
FirstRun == re_search(normalize(wd_value))
\* the text that is left once the surrounding blanks, currency signs and commas are gone
Cleaned ==
    SelectSeq(strip(wd_value.text), LAMBDA c : c \notin {"$", "<baht>", ","})
WithdrawalIndicator ==
    \/ contains(lower(Cleaned), kw_dr)
    \/ contains(lower(Cleaned), kw_withdrawal)
    \/ (Cleaned # <<>> /\ Head(Cleaned) = "-")
DepositIndicator ==
    \/ contains(lower(Cleaned), kw_cr)
    \/ contains(lower(Cleaned), kw_deposit)
    \/ (Cleaned # <<>> /\ Head(Cleaned) = "+")

\* C2 as stated: every input that contains "DR" in any letter case gives a
\* withdrawal that is a number and a deposit that is none.
C2_DrAlwaysWithdrawal ==
    (Called /\ HasDR) =>
        /\ pa_result.status = "ok"
        /\ pa_result.withdrawal.kind = "float"
        /\ pa_result.deposit = None

\* C2 amended: an input that contains "DR" in any letter case never gives a
\* deposit: with no digit or decimal point in it the result is (none, none); when
\* its first run of digits and points is a number the result is (that number,
\* none); when that run is no number the call raises ValueError.
C2_DrNeverDeposit ==
    (Called /\ HasDR) =>
        IF ~HasNumChar THEN pa_result = Returned(None, None)
        ELSE IF ~float_ok(FirstRun) THEN pa_result.status = "ValueError"
        ELSE /\ pa_result.status = "ok"
             /\ pa_result.withdrawal = float(FirstRun)
             /\ pa_result.deposit = None

\* C2 witness: a call on a text with "DR" and a number has returned a withdrawal.
C2_Witness ==
    /\ Called
    /\ HasDR
    /\ pa_result.status = "ok"
    /\ pa_result.withdrawal.kind = "float"
    /\ pa_result.withdrawal.n > 0

\* C3 as stated: every input that contains "CR" in any letter case gives a
\* deposit that is a number and a withdrawal that is none, also when the input
\* carries a withdrawal indicator.
C3_CrAlwaysDeposit ==
    (Called /\ HasCR) =>
        /\ pa_result.status = "ok"
        /\ pa_result.deposit.kind = "float"
        /\ pa_result.withdrawal = None

\* C3 amended: for an input that contains "CR" in any letter case, with no digit
\* or decimal point the result is (none, none); when its first run of digits and
\* points is no number the call raises ValueError; otherwise the result is
\* (none, amount) when the input carries no withdrawal indicator, and
\* (amount, none) when it carries one: the withdrawal indicator wins.
C3_CrDepositUnlessWithdrawal ==
    (Called /\ HasCR) =>
        IF ~HasNumChar THEN pa_result = Returned(None, None)
        ELSE IF ~float_ok(FirstRun) THEN pa_result.status = "ValueError"
        ELSE IF WithdrawalIndicator THEN pa_result = Returned(float(FirstRun), None)
        ELSE pa_result = Returned(None, float(FirstRun))

\* C3 witness: a call on a text with "CR", a number and no withdrawal indicator
\* has returned a deposit.
C3_Witness ==
    /\ Called
    /\ HasCR
    /\ ~WithdrawalIndicator
    /\ pa_result.status = "ok"
    /\ pa_result.deposit.kind = "float"
    /\ pa_result.withdrawal = None

\* C8 as stated: a non-empty input with a run of digits and no withdrawal or
\* deposit indicator gives (none, amount), amount being the value of the first
\* numeric run.
C8_DefaultDeposit ==
    (Called /\ HasDigit /\ ~WithdrawalIndicator /\ ~DepositIndicator) =>
        pa_result = Returned(None, float(FirstRun))

\* C9 as stated: parse_amount never fails, and a run of digits and points that
\* is no number gives (none, none).
C9_NeverFails ==
    Called =>
        /\ pa_result.status = "ok"
        /\ (HasNumChar /\ ~float_ok(FirstRun)) => pa_result = Returned(None, None)

(***************************************************************************)
(* extract_tables_from_pdf.  A readable PDF is a sequence of pages, a page *)
(* a sequence of tables, a table a sequence of rows, a row a sequence of   *)
(* cells.  The cells of the first row are the column names.                *)
(***************************************************************************)
Corrupt == [kind |-> "corrupt"]
Pdf(pages) == [kind |-> "pdf", pages |-> pages]

RECURSIVE extend_tables(_)
extend_tables(tables) ==
    IF tables = <<>> THEN <<>>
    ELSE (IF Head(tables) # <<>> THEN Head(tables) ELSE <<>>) \o extend_tables(Tail(tables))
RECURSIVE extend_pages(_)
extend_pages(pages) ==
    IF pages = <<>> THEN <<>>
    ELSE extend_tables(Head(pages)) \o extend_pages(Tail(pages))
extract_tables_from_pdf(p) ==
    IF p.kind = "corrupt" THEN Raised("ExtractionError")
    ELSE [status |-> "ok", rows |-> extend_pages(p.pages)]

(***************************************************************************)
(* clean_and_transform.                                                    *)
(***************************************************************************)
Columns == <<"Date", "Description", "Withdrawal", "Deposit", "Category", "Notes">>
NotesPrefix ==
    <<"T", "i", "m", "e", "/", "E", "f", "f", ".", "D", "a", "t", "e", ":", " ">>
Separator == <<" ", "-", " ">>

\* pd.DataFrame(data_rows, columns=headers): the rows are padded with None to the
\* longest row, and that width must be the number of column names
dataframe_ok(headers, data_rows) ==
    \/ data_rows = <<>>
    \/ /\ \E i \in 1..Len(data_rows) : Len(data_rows[i]) = Len(headers)
       /\ \A i \in 1..Len(data_rows) : Len(data_rows[i]) <= Len(headers)
pad(row, n) == [i \in 1..n |-> IF i <= Len(row) THEN row[i] ELSE None]
\* df.dropna(how='all')
dropna(rows) == SelectSeq(rows, LAMBDA row : \E i \in 1..Len(row) : row[i] # None)

\* row.get(name, '')
row_get(headers, row, name) ==
    IF \E i \in 1..Len(headers) : headers[i] = name
    THEN row[CHOOSE i \in 1..Len(headers) : headers[i] = name]
    ELSE EmptyStr

full_description(description, details) ==
    IF description # <<>> /\ details # <<>>
    THEN description \o Separator \o details
    ELSE IF description # <<>> THEN description ELSE details

\* withdrawal if withdrawal else ''
or_empty(amount) == IF truthy(amount) THEN amount ELSE EmptyStr

\* one pass of the loop over df.iterrows(): "raise", "skip" (continue) or "append"
transform_row(headers, row) ==
    LET date_val == row_get(headers, row, "Date")
        time_val == row_get(headers, row, "Time/Eff.Date")
        date_str == IF truthy(date_val) THEN strip(str(date_val)) ELSE <<>>
        description == strip(str(row_get(headers, row, "Descriptions")))
        parsed == parse_amount(row_get(headers, row, "Withdrawal / Deposit"))
        channel == strip(str(row_get(headers, row, "Channel")))
        details == strip(str(row_get(headers, row, "Details")))
    IN  IF parsed.status # "ok" THEN [step |-> "raise", error |-> parsed.status]
        ELSE IF parsed.withdrawal = None /\ parsed.deposit = None THEN [step |-> "skip"]
        ELSE [step |-> "append",
              rec |-> [Date |-> Str(date_str),
                       Description |-> Str(full_description(description, details)),
                       Withdrawal |-> or_empty(parsed.withdrawal),
                       Deposit |-> or_empty(parsed.deposit),
                       Category |-> Str(channel),
                       Notes |-> IF truthy(time_val)
                                 THEN Str(NotesPrefix \o str(time_val))
                                 ELSE EmptyStr]]

RECURSIVE transform_rows(_, _, _)
transform_rows(headers, rows, processed_data) ==
    IF rows = <<>> THEN [status |-> "ok", records |-> processed_data]
    ELSE LET t == transform_row(headers, Head(rows))
         IN  CASE t.step = "raise" -> Raised(t.error)
               [] t.step = "skip" -> transform_rows(headers, Tail(rows), processed_data)
               [] t.step = "append" ->
                      transform_rows(headers, Tail(rows), Append(processed_data, t.rec))

clean_and_transform(raw_data) ==
    IF raw_data = <<>> THEN Raised("ValueError")
    ELSE LET headers == raw_data[1]
             data_rows == Tail(raw_data)
         IN  IF ~dataframe_ok(headers, data_rows) THEN Raised("ValueError")
             ELSE transform_rows(
                      headers,
                      dropna([i \in 1..Len(data_rows) |-> pad(data_rows[i], Len(headers))]),
                      <<>>)

(***************************************************************************)
(* convert.  pd.DataFrame(processed_data) takes its columns from the keys  *)
(* of the records, so a frame of no records has no columns; to_csv writes  *)
(* the column names and then one line per record.  The write is the last   *)
(* step: when it fails (write_ok is false) the file has been created and   *)
(* is left partly written.                                                 *)
(***************************************************************************)
frame_columns(records) == IF records = <<>> THEN <<>> ELSE Columns
csv_line(rec) == [i \in 1..Len(Columns) |-> rec[Columns[i]]]
to_csv(records) ==
    [kind |-> "csv",
     header |-> frame_columns(records),
     rows |-> [i \in 1..Len(records) |-> csv_line(records[i])]]
PartialFile == [kind |-> "partial"]

Converted(status, file, records) ==
    [status |-> status, file |-> file, records |-> records]

convert(p, write_ok) ==
    LET extracted == extract_tables_from_pdf(p)
    IN  IF extracted.status # "ok" THEN Converted(extracted.status, None, <<>>)
        ELSE IF extracted.rows = <<>> THEN Converted("ValueError", None, <<>>)
        ELSE LET df == clean_and_transform(extracted.rows)
             IN  IF df.status # "ok" THEN Converted(df.status, None, <<>>)
                 ELSE IF ~write_ok THEN Converted("OSError", PartialFile, df.records)
                 ELSE Converted("ok", to_csv(df.records), df.records)

(***************************************************************************)
(* The PDFs the converter is checked on: an unreadable file, a file with   *)
(* no pages, pages with no table, and one table of a header row and at     *)
(* most max_rows data rows, on one page or split over two.  A data row has *)
(* an amount cell and two text cells, or is cut short, or is too long.     *)
(***************************************************************************)
HeaderPool ==
    { <<"Withdrawal / Deposit", "Descriptions", "Details">>,
      <<"Withdrawal / Deposit", "Date", "Time/Eff.Date">>,
      <<"Withdrawal / Deposit", "Channel", "Descriptions">>,
      <<"Amount", "Descriptions", "Details">> }
AmountCells == {None, Str(<<"D", "R", " ", "0">>), Str(<<"5">>), Str(<<".">>)}
TextCells == {None, EmptyStr, Str(<<"A", " ">>)}
RowPool ==
    {<<a>> : a \in AmountCells}
        \cup {<<a, t>> : a \in AmountCells, t \in TextCells}
        \cup {<<a, t, u>> : a \in AmountCells, t \in TextCells, u \in TextCells}
        \cup {<<Str(<<"5">>), None, None, None>>}
RECURSIVE RowSeqs(_)
RowSeqs(count) ==
    IF count = 0 THEN {<<>>}
    ELSE LET fewer == RowSeqs(count - 1)
         IN  fewer \cup {Append(rs, r) : rs \in fewer, r \in RowPool}
TablePool(max_rows) == {<<h>> \o rs : h \in HeaderPool, rs \in RowSeqs(max_rows)}
PdfPool(max_rows) ==
    {Corrupt, Pdf(<<>>), Pdf(<< <<>> >>), Pdf(<< <<>>, << <<>> >> >>)}
        \cup {Pdf(<< <<t>> >>) : t \in TablePool(max_rows)}
        \cup {Pdf(<< << <<h>> >>, << <<>>, <<r>> >> >>) : h \in HeaderPool, r \in RowPool}

(***************************************************************************)
(* api_server.py: the upload endpoints.  A path is a directory and a file  *)
(* name; a file on disk records the request that wrote it and what was     *)
(* written.  The handlers have no await, and several workers may run them  *)
(* side by side, so a request advances one file system step at a time.     *)
(***************************************************************************)
UPLOAD_DIR == "/app/uploads"
OUTPUT_DIR == "/app/outputs"
Requests == 1..MaxReq
JobIds == 1..MaxReq
Endpoints == {"/convert", "/convert-json"}
Filenames == { <<"a", ".", "p", "d", "f">>, <<"a", ".", "t", "x", "t">> }
\* what a client uploads
Uploads ==
    { Corrupt,
      Pdf(<<>>),
      Pdf(<< << << <<"Descriptions", "Withdrawal / Deposit">> >> >> >>),
      Pdf(<< << << <<"Descriptions", "Withdrawal / Deposit">>,
                   <<Str(<<"A">>), Str(<<"D", "R", " ", "5">>)>> >> >> >>),
      Pdf(<< << << <<"Descriptions", "Withdrawal / Deposit">>,
                   <<Str(<<"A">>), Str(<<".">>)>> >> >> >>) }

NoFiles == [q \in {} |-> None]
NewRequest == [pc |-> "new"]
NoRequests == [r \in Requests |-> NewRequest]

\* file.filename.endswith('.pdf')
accepts_any(filename) == TRUE
accepts(filename) == endswith(filename, <<".", "p", "d", "f">>)

\* str(uuid.uuid4()): an id no earlier call has returned
uuid4(used) == JobIds \ used

\* UPLOAD_DIR / f"{job_id}_{file.filename}"
input_path_by_name(job_id, filename) == [dir |-> UPLOAD_DIR, name |-> <<0, "_">> \o filename]
input_path(job_id, filename) == [dir |-> UPLOAD_DIR, name |-> <<job_id, "_">> \o filename]
\* OUTPUT_DIR / f"{job_id}_firefly.csv"
output_path(job_id) ==
    [dir |-> OUTPUT_DIR,
     name |-> <<job_id, "_", "f", "i", "r", "e", "f", "l", "y", ".", "c", "s", "v">>]

exists(files, path) == path \in DOMAIN files
write(files, path, r, content) == (path :> [owner |-> r, content |-> content]) @@ files
unlink(files, path) == [q \in DOMAIN files \ {path} |-> files[q]]
\* path.exists() and then path.unlink()
unlink_if_exists(files, path) == IF exists(files, path) THEN unlink(files, path) ELSE files
\* whether request r opening path touches a file that another request wrote
touches_foreign(files, path, r) == exists(files, path) /\ files[path].owner # r

\* except Exception -> HTTPException(500); a returned response is a 200
status_code(exc) == IF exc = "none" THEN 200 ELSE 500


InitParse ==
    /\ wd_value \in CellValues
    /\ pa_result = None
    /\ pa_pc = "call"
    /\ pdf = None
    /\ conv = None
    /\ reqs = NoRequests
    /\ fs = NoFiles
    /\ used_ids = {}
    /\ foreign = FALSE

CallParseAmount ==
    /\ pa_pc = "call"
    /\ pa_result' = parse_amount(wd_value)
    /\ pa_pc' = "done"
    /\ UNCHANGED <<wd_value, pdf, conv, reqs, fs, used_ids, foreign>>

NextParse == CallParseAmount

SpecParse == InitParse /\ [][NextParse]_vars

InitConvert ==
    /\ pdf \in PdfPool(MaxRows)
    /\ conv = None
    /\ wd_value = None
    /\ pa_result = None
    /\ pa_pc = "done"
    /\ reqs = NoRequests
    /\ fs = NoFiles
    /\ used_ids = {}
    /\ foreign = FALSE

\* converter.convert(), as main() calls it
Convert ==
    /\ conv = None
    /\ \E write_ok \in BOOLEAN : conv' = convert(pdf, write_ok)
    /\ UNCHANGED <<wd_value, pa_result, pa_pc, pdf, reqs, fs, used_ids, foreign>>

NextConvert == Convert

SpecConvert == InitConvert /\ [][NextConvert]_vars

InitServer ==
    /\ reqs = NoRequests
    /\ fs = NoFiles
    /\ used_ids = {}
    /\ foreign = FALSE
    /\ wd_value = None
    /\ pa_result = None
    /\ pa_pc = "done"
    /\ pdf = None
    /\ conv = None

Others == <<wd_value, pa_result, pa_pc, pdf, conv>>

\* the request arrives: the filename check, the job id and the two paths
Accept(r) ==
    /\ reqs[r].pc = "new"
    /\ \E endpoint \in Endpoints, filename \in Filenames :
           IF ~accepts(filename)
           THEN /\ reqs' = [reqs EXCEPT ![r] =
                        [pc |-> "done", endpoint |-> endpoint, filename |-> filename,
                         job_id |-> 0, input_path |-> None, output_path |-> None,
                         staged |-> "no", converted |-> "no", exc |-> "HTTPException",
                         response |-> 400]]
                /\ UNCHANGED used_ids
           ELSE \E job_id \in uuid4(used_ids) :
                    /\ reqs' = [reqs EXCEPT ![r] =
                           [pc |-> "stage", endpoint |-> endpoint, filename |-> filename,
                            job_id |-> job_id,
                            input_path |-> input_path(job_id, filename),
                            output_path |-> output_path(job_id),
                            staged |-> "no", converted |-> "no", exc |-> "none",
                            response |-> 0]]
                    /\ used_ids' = used_ids \cup {job_id}
    /\ UNCHANGED <<fs, foreign, Others>>

\* input_path.open("wb") and shutil.copyfileobj: the open may fail, and the copy
\* may fail after the file was created
Stage(r) ==
    /\ reqs[r].pc = "stage"
    /\ \E upload \in Uploads, outcome \in {"ok", "open fails", "copy fails"} :
           LET path == reqs[r].input_path
           IN  CASE outcome = "open fails" ->
                        /\ reqs' = [reqs EXCEPT ![r].pc = "finally",
                                                ![r].staged = "failed",
                                                ![r].exc = "OSError"]
                        /\ UNCHANGED <<fs, foreign>>
                 [] outcome = "copy fails" ->
                        /\ reqs' = [reqs EXCEPT ![r].pc = "finally",
                                                ![r].staged = "failed",
                                                ![r].exc = "OSError"]
                        /\ fs' = write(fs, path, r, PartialFile)
                        /\ foreign' = (foreign \/ touches_foreign(fs, path, r))
                 [] outcome = "ok" ->
                        /\ reqs' = [reqs EXCEPT ![r].pc = "convert", ![r].staged = "ok"]
                        /\ fs' = write(fs, path, r, upload)
                        /\ foreign' = (foreign \/ touches_foreign(fs, path, r))
    /\ UNCHANGED <<used_ids, Others>>

\* BankStatementConverter(input_path, output_path).convert()
ConvertUpload(r) ==
    /\ reqs[r].pc = "convert"
    /\ LET inp == reqs[r].input_path
           out == reqs[r].output_path
       IN  IF ~exists(fs, inp) \/ fs[inp].content = PartialFile
           THEN /\ reqs' = [reqs EXCEPT ![r].pc = "finally",
                                        ![r].converted = "ExtractionError",
                                        ![r].exc = "ExtractionError"]
                /\ foreign' = (foreign \/ touches_foreign(fs, inp, r))
                /\ UNCHANGED fs
           ELSE \E write_ok \in BOOLEAN :
                    \E c \in {convert(fs[inp].content, write_ok)} :
                        /\ reqs' = [reqs EXCEPT
                               ![r].pc = IF c.status # "ok" THEN "finally"
                                         ELSE IF reqs[r].endpoint = "/convert-json"
                                         THEN "read" ELSE "finally",
                               ![r].converted = c.status,
                               ![r].exc = IF c.status = "ok" THEN "none" ELSE c.status]
                        /\ fs' = IF c.file = None THEN fs ELSE write(fs, out, r, c.file)
                        /\ foreign' = (\/ foreign
                                       \/ touches_foreign(fs, inp, r)
                                       \/ (c.file # None /\ touches_foreign(fs, out, r)))
    /\ UNCHANGED <<used_ids, Others>>

\* /convert-json: pd.read_csv(output_path) and the JSON response built from it;
\* a file with no header line cannot be parsed, and the rendering may fail
ReadBack(r) ==
    /\ reqs[r].pc = "read"
    /\ \E json_ok \in BOOLEAN :
           LET out == reqs[r].output_path
               readable == exists(fs, out) /\ fs[out].content # PartialFile
                               /\ fs[out].content.header # <<>>
           IN  /\ reqs' = [reqs EXCEPT
                      ![r].pc = "finally",
                      ![r].exc = IF ~readable THEN "EmptyDataError"
                                 ELSE IF ~json_ok THEN "ValueError" ELSE "none"]
               /\ foreign' = (foreign \/ touches_foreign(fs, out, r))
    /\ UNCHANGED <<fs, used_ids, Others>>

\* the except clause and the finally block: the response is decided and the
\* staged files are removed, the output file by /convert-json only
Finally(r) ==
    /\ reqs[r].pc = "finally"
    /\ LET inp == reqs[r].input_path
           out == reqs[r].output_path
           json == reqs[r].endpoint = "/convert-json"
           fs1 == unlink_if_exists(fs, inp)
       IN  /\ reqs' = [reqs EXCEPT ![r].pc = "done",
                                   ![r].response = status_code(reqs[r].exc)]
           /\ fs' = IF json THEN unlink_if_exists(fs1, out) ELSE fs1
           /\ foreign' = (\/ foreign
                          \/ touches_foreign(fs, inp, r)
                          \/ (json /\ touches_foreign(fs, out, r)))
    /\ UNCHANGED <<used_ids, Others>>

\* /convert: the FileResponse is sent after the handler has returned, from the
\* output file
SendFile(r) ==
    /\ reqs[r].pc = "done"
    /\ reqs[r].endpoint = "/convert"
    /\ reqs[r].response = 200
    /\ reqs' = [reqs EXCEPT ![r].pc = "sent"]
    /\ foreign' = (foreign \/ ~exists(fs, reqs[r].output_path)
                           \/ touches_foreign(fs, reqs[r].output_path, r))
    /\ UNCHANGED <<fs, used_ids, Others>>

NextServer ==
    \E r \in Requests :
        \/ Accept(r)
        \/ Stage(r)
        \/ ConvertUpload(r)
        \/ ReadBack(r)
        \/ Finally(r)
        \/ SendFile(r)

SpecServer == InitServer /\ [][NextServer]_vars

(***************************************************************************)
(* Properties of the upload endpoints, checked under SpecServer.           *)
(***************************************************************************)
Finished(r) == reqs[r].pc \in {"done", "sent"}
HasJob(r) == reqs[r].pc # "new" /\ reqs[r].job_id # 0
PathsOf(r) == {reqs[r].input_path, reqs[r].output_path}
FilesOf(r) == {path \in DOMAIN fs : fs[path].owner = r}
IsPdfName(filename) ==
    /\ Len(filename) >= 4
    /\ <<filename[Len(filename) - 3], filename[Len(filename) - 2],
         filename[Len(filename) - 1], filename[Len(filename)]>> = <<".", "p", "d", "f">>

\* C4 as stated: once a request has finished, on every exit path, its uploaded
\* file is gone, and its output file is gone too unless the request is a
\* /convert that succeeded.
C4_NoStagedFileRemains ==
    \A r \in Requests :
        Finished(r) =>
            FilesOf(r) \subseteq
                (IF reqs[r].endpoint = "/convert" /\ reqs[r].response = 200
                 THEN {reqs[r].output_path}
                 ELSE {})

\* C6: requests that run interleaved use paths no other request uses, also with
\* the same filename: every file on disk lies at a path of the request that
\* wrote it, and no request reads, overwrites or deletes a file of another.
C6_RequestsKeepApart ==
    /\ ~foreign
    /\ \A r1, r2 \in Requests :
           (r1 # r2 /\ HasJob(r1) /\ HasJob(r2)) => PathsOf(r1) \cap PathsOf(r2) = {}
    /\ \A path \in DOMAIN fs : path \in PathsOf(fs[path].owner)

\* C6 witness: two requests that uploaded the same filename have both their
\* uploads on disk at once.
C6_Witness ==
    \E r1, r2 \in Requests :
        /\ r1 # r2
        /\ HasJob(r1)
        /\ HasJob(r2)
        /\ reqs[r1].filename = reqs[r2].filename
        /\ exists(fs, reqs[r1].input_path)
        /\ exists(fs, reqs[r2].input_path)
        /\ fs[reqs[r1].input_path].owner = r1
        /\ fs[reqs[r2].input_path].owner = r2

\* C7: a /convert request ends in one outcome: 400 when the filename does not
\* end in .pdf, with nothing staged and no conversion started; else 500 when the
\* staging or the conversion failed; else 200.  Before it ends it has no outcome.
C7_OneOutcome ==
    \A r \in Requests :
        (reqs[r].pc # "new" /\ reqs[r].endpoint = "/convert") =>
            IF ~Finished(r) THEN reqs[r].response = 0
            ELSE IF ~IsPdfName(reqs[r].filename)
            THEN /\ reqs[r].response = 400
                 /\ reqs[r].staged = "no"
                 /\ reqs[r].converted = "no"
                 /\ FilesOf(r) = {}
            ELSE IF reqs[r].staged # "ok" \/ reqs[r].converted # "ok"
            THEN reqs[r].response = 500 /\ reqs[r].exc # "none"
            ELSE reqs[r].response = 200

\* C7 witness: a /convert request whose upload was staged and whose conversion
\* raised ValueError has ended with a 500.
C7_Witness ==
    \E r \in Requests :
        /\ Finished(r)
        /\ reqs[r].endpoint = "/convert"
        /\ reqs[r].staged = "ok"
        /\ reqs[r].converted = "ValueError"
        /\ reqs[r].response = 500

(***************************************************************************)
(* Properties of clean_and_transform and convert, checked under            *)
(* SpecConvert.                                                            *)
(***************************************************************************)
Completed == conv # None /\ conv.status = "ok"
\* the rows of the extracted table as the transformer sees them
SourceHeaders == extend_pages(pdf.pages)[1]
SourceRows ==
    LET raw == extend_pages(pdf.pages)
    IN  dropna([i \in 1..(Len(raw) - 1) |-> pad(raw[i + 1], Len(SourceHeaders))])
\* the cell of a column, "missing" when the column or the cell is absent
SourceCell(row, name) ==
    IF \E i \in 1..Len(SourceHeaders) : SourceHeaders[i] = name
    THEN row[CHOOSE i \in 1..Len(SourceHeaders) : SourceHeaders[i] = name]
    ELSE None
CellText(cell) == IF cell = None THEN <<>> ELSE strip(cell.text)
HasAmount(row) ==
    LET parsed == parse_amount(SourceCell(row, "Withdrawal / Deposit"))
    IN  parsed.withdrawal # None \/ parsed.deposit # None
ExpectedDescription(row) ==
    LET d == CellText(SourceCell(row, "Descriptions"))
        e == CellText(SourceCell(row, "Details"))
    IN  IF d # <<>> /\ e # <<>> THEN d \o <<" ", "-", " ">> \o e
        ELSE IF d # <<>> THEN d ELSE e

\* C1 as stated: no emitted transaction has both Withdrawal and Deposit empty.
C1_AmountNeverBothEmpty ==
    Completed =>
        \A i \in 1..Len(conv.records) :
            conv.records[i].Withdrawal # EmptyStr \/ conv.records[i].Deposit # EmptyStr

\* C5 as stated: a conversion that completes writes the six column names as the
\* header row, then one row per emitted transaction in order, also when no
\* transaction is emitted.
C5_HeaderAlwaysWritten ==
    Completed =>
        /\ conv.file.header =
               <<"Date", "Description", "Withdrawal", "Deposit", "Category", "Notes">>
        /\ Len(conv.file.rows) = Len(conv.records)
        /\ \A i \in 1..Len(conv.records) :
               conv.file.rows[i] =
                   << conv.records[i].Date, conv.records[i].Description,
                      conv.records[i].Withdrawal, conv.records[i].Deposit,
                      conv.records[i].Category, conv.records[i].Notes >>

\* C10 as stated: Description joins the Descriptions and Details cells with
\* " - " when both are non-empty, is the non-empty one otherwise, and a missing
\* cell counts as empty.
C10_DescriptionFromCells ==
    Completed =>
        LET kept == SelectSeq(SourceRows, HasAmount)
        IN  /\ Len(conv.records) = Len(kept)
            /\ \A i \in 1..Len(kept) :
                   conv.records[i].Description = Str(ExpectedDescription(kept[i]))

====
